---- MODULE Spec2Model ----
(***************************************************************************)
(* Model of the Vercel-webhook -> Telegram relay.                          *)
(*                                                                         *)
(* The repository holds four revisions of the request handler:             *)
(*   "Legacy"        src/unnamed/part_000, lines 8-44   (no verification)  *)
(*   "PrefixedNoLen" src/api/..., lines 28-103  ("sha1=" + hex, no length  *)
(*                   check before timingSafeEqual)                         *)
(*   "BareHash"      src/api/..., lines 135-243 (bare hex, length check)   *)
(*   "PrefixedLen"   src/api/..., lines 274-379 ("sha1=" + hex, length     *)
(*                   check)                                                *)
(* One request is handled per behaviour; rev says by which revision.       *)
(*                                                                         *)
(* HMAC-SHA1 is modelled symbolically: the digest of (body, key) is the    *)
(* string determined by that pair, so two digests are equal exactly when   *)
(* body and key are equal (collision freedom is assumed, not checked).     *)
(***************************************************************************)
EXTENDS Integers, Sequences, FiniteSets, TLC

VARIABLES
  rev,          \* which handler revision serves the request
  method,       \* req.method
  headerSig,    \* req.headers["x-vercel-signature"]
  envSecret,    \* process.env.VERCEL_WEBHOOK_SECRET
  envChatId,    \* process.env.TELEGRAM_TARGET_CHAT_ID
  envBotToken,  \* process.env.TELEGRAM_BOT_TOKEN (BOT_TOKEN)
  pc,           \* where the handler is
  chunks,       \* getRawBody's chunks array
  rawBody,      \* the buffer getRawBody resolved with
  webhook,      \* what the body parsed to
  steps,        \* the pipeline steps the handler has evaluated, in order
  tseCalls,     \* byte lengths of each timingSafeEqual invocation
  responses,    \* the HTTP responses sent on res, in order
  fetchCalls,   \* remote calls issued by sendTelegramMessage
  fetched,      \* the fetch Response whose body is being read
  sendResult,   \* what sendTelegramMessage returned
  log,          \* console output, in order
  remoteBody,   \* the body response.json() was read from
  pureIn,       \* the call of a pure function under study: its name and argument
  pureOut,      \* what that call returned, or that it threw
  inflight,     \* the requests of one process that are being handled at once
  buffers       \* the chunks arrays of the getRawBody calls of those requests

vars == <<rev, method, headerSig, envSecret, envChatId, envBotToken, pc, chunks,
          rawBody, webhook, steps, tseCalls, responses, fetchCalls, fetched,
          sendResult, log, remoteBody, pureIn, pureOut, inflight, buffers>>

-----------------------------------------------------------------------------
(* Bounds of the model *)

MaxChunks == 2

-----------------------------------------------------------------------------
(* Program constants *)

\* "Calculate the expected hash (40 characters)": a hex SHA-1 digest
HexLen == 40
\* the byte length of the scheme prefix "sha1="
PrefixLen == 5

-----------------------------------------------------------------------------
(* Values *)

Revs == {"Legacy", "PrefixedNoLen", "BareHash", "PrefixedLen"}
Verifying == {"PrefixedNoLen", "BareHash", "PrefixedLen"}
Methods == {"POST", "GET"}

\* An environment variable that is not set
Unset == "<unset>"
Keys == {"k1", "k2"}

\* JavaScript's !v for a string-or-undefined environment value
Falsy(v) == v = Unset \/ v = ""

\* Body bytes, as JSON fragments: O is {   P is "payload":{}   C is }
\* The 'data' chunks a request stream may deliver
ChunkSet == {<<"O">>, <<"C">>, <<"O", "P">>}
\* The bodies a sender may have signed: the empty body, {} and {"payload":{}}
SignedBodies == {<< >>, <<"O", "C">>, <<"O", "P", "C">>}

\* A string that is a signature header or an expected signature:
\*   absent  the header is not there (undefined)
\*   empty   ""
\*   hmac    the lowercase hex HMAC-SHA1 of body under key, after "sha1=" when pre
\*   junk    n characters that are no digest and do not start with "sha1=",
\*           after "sha1=" when pre
SigStr(kind, pre, body, key, n) ==
  [kind |-> kind, pre |-> pre, body |-> body, key |-> key, n |-> n]
Absent == SigStr("absent", FALSE, << >>, "", 0)
Empty == SigStr("empty", FALSE, << >>, "", 0)
Junk(pre, n) == SigStr("junk", pre, << >>, "", n)

HeaderValues ==
  {Absent, Empty}
  \cup {SigStr("hmac", p, b, k, 0) : p \in BOOLEAN, b \in SignedBodies, k \in Keys}
  \cup {Junk(FALSE, 7), Junk(FALSE, HexLen), Junk(FALSE, HexLen + PrefixLen),
        Junk(TRUE, HexLen)}

\* !signatureHeader
HeaderFalsy(h) == h.kind \in {"absent", "empty"}

\* Buffer.from(s, "utf-8").byteLength
ByteLength(s) ==
  (IF s.pre THEN PrefixLen ELSE 0)
  + (CASE s.kind = "hmac" -> HexLen
       [] s.kind = "junk" -> s.n
       [] OTHER -> 0)

\* A concatenation that puts the latest chunk first
RECURSIVE ConcatLatestFirst(_)
ConcatLatestFirst(cs) ==
  IF cs = << >> THEN << >> ELSE ConcatLatestFirst(Tail(cs)) \o Head(cs)

RECURSIVE Concat(_)
\* Buffer.concat(chunks)
Concat(cs) == IF cs = << >> THEN << >> ELSE Head(cs) \o Concat(Tail(cs))

\* createHmac("sha1", secret).update(data).digest("hex")
calculateSha1Hash(data, secret) == SigStr("hmac", FALSE, data, secret, 0)

\* `sha1=${...}`
WithPrefix(s) == [s EXCEPT !.pre = TRUE]

\* JSON.parse(rawBody.toString("utf-8")): the value's shape, or "malformed"
\* when it throws
JsonParse(body) ==
  CASE body = <<"O", "P", "C">> -> "event"
    [] body = <<"O", "C">> -> "object"
    [] OTHER -> "malformed"

-----------------------------------------------------------------------------
(* The signature verifier *)

\* A comparison that looks at the lengths only
timingSafeEqualLengthOnly(a, b) ==
  IF ByteLength(a) # ByteLength(b) THEN "RangeError" ELSE "true"

\* crypto.timingSafeEqual(a, b): a RangeError when the byte lengths differ
timingSafeEqual(a, b) ==
  IF ByteLength(a) # ByteLength(b) THEN "RangeError"
  ELSE IF a = b THEN "true" ELSE "false"

\* The value the header is compared against
ExpectedSignature(r, body, secret) ==
  IF r = "BareHash" THEN calculateSha1Hash(body, secret)
  ELSE WithPrefix(calculateSha1Hash(body, secret))

\* "Check lengths before timingSafeEqual": only two revisions do
HasLengthCheck(r) == r \in {"BareHash", "PrefixedLen"}

\* The signature check of one request: how it ends
SignatureCheck(r, header, expected) ==
  IF HasLengthCheck(r) /\ ByteLength(header) # ByteLength(expected)
  THEN "lengthMismatch"
  ELSE CASE timingSafeEqual(header, expected) = "RangeError" -> "threw"
         [] timingSafeEqual(header, expected) = "false" -> "invalid"
         [] OTHER -> "passed"

\* Whether the signature check invokes timingSafeEqual
ComparisonInvoked(r, header, expected) ==
  ~(HasLengthCheck(r) /\ ByteLength(header) # ByteLength(expected))

-----------------------------------------------------------------------------
(* The formatter and the dispatcher *)

\* formatVercelMessageForTelegram(webhook) throws a TypeError on
\* payload.deployment when the parsed value has no payload object
FormatThrows(parsed) == parsed # "event"

\* What sendTelegramMessage returns for a settled remote call
\* A dispatcher that trusts the HTTP status alone
SendOutcomeStatusOnly(ok2xx, body) == ok2xx

SendOutcome(ok2xx, body) == ok2xx /\ body = "okTrue"

\* The bodies a fetch Response may carry: unparseable, JSON null, {ok:true..},
\* {ok:false..}
ResponseBodies == {"unparseable", "null", "okTrue", "okFalse"}

-----------------------------------------------------------------------------
(* HTTP responses *)

Response(status, text, allow) == [status |-> status, text |-> text, allow |-> allow]
MethodNotAllowed == Response(405, "Method Not Allowed", TRUE)
ConfigError == Response(500, "Internal server configuration error.", FALSE)
SignatureMissing == Response(401, "Signature missing.", FALSE)
BodyError == Response(500, "Error processing request body.", FALSE)
LengthMismatch == Response(401, "Invalid signature due to length mismatch.", FALSE)
InvalidSignature == Response(401, "Invalid signature.", FALSE)
InvalidJson == Response(400, "Invalid JSON payload.", FALSE)
NoChatId == Response(200, "Webhook received, but Telegram chat ID not configured.", FALSE)
Sent == Response(200, "Notification sent to Telegram.", FALSE)
SendFailed == Response(500, "Failed to send Telegram notification.", FALSE)
InternalError == Response(500, "Internal Server Error", FALSE)

\* if (success) ... else ...
Outcome(success) == IF success THEN Sent ELSE SendFailed

\* A console line: its level, its fixed text and the values interpolated in it
LineOf(lvl, msg, data) == [lvl |-> lvl, msg |-> msg, data |-> data]
Line(lvl, msg) == LineOf(lvl, msg, {})

-----------------------------------------------------------------------------
(* The handler of the verifying revisions, up to its first await *)

\* The checks with the header looked at before the configuration
EntryVerdictHeaderFirst(m, secret, header) ==
  IF m # "POST" THEN "methodNotAllowed"
  ELSE IF HeaderFalsy(header) THEN "signatureMissing"
  ELSE IF Falsy(secret) THEN "configError"
  ELSE "read"

\* How the checks before the body read end, in the order the code makes them
EntryVerdict(m, secret, header) ==
  IF m # "POST" THEN "methodNotAllowed"
  ELSE IF Falsy(secret) THEN "configError"
  ELSE IF HeaderFalsy(header) THEN "signatureMissing"
  ELSE "read"

EntrySteps(v) ==
  CASE v = "methodNotAllowed" -> <<"method">>
    [] v = "configError" -> <<"method", "config">>
    [] OTHER -> <<"method", "config", "header">>

EntryResponses(v) ==
  CASE v = "methodNotAllowed" -> <<MethodNotAllowed>>
    [] v = "configError" -> <<ConfigError>>
    [] v = "signatureMissing" -> <<SignatureMissing>>
    [] OTHER -> << >>

EntryLog(r, v) ==
  (IF r = "BareHash" THEN <<LineOf("log", "RAW INCOMING HEADERS:", {"headers"})>> ELSE << >>)
  \o (CASE v = "configError" -> <<Line("error", "VERCEL_WEBHOOK_SECRET is not set.")>>
        [] v = "signatureMissing" -> <<Line("warn", "Missing x-vercel-signature header.")>>
        [] OTHER -> << >>)

-----------------------------------------------------------------------------
(* The handler of the verifying revisions, after the body has been read *)

\* The continuation without the check of the chat id
BodyVerdictNoTarget(r, header, expected, parsed, chat, token) ==
  IF SignatureCheck(r, header, expected) # "passed"
  THEN SignatureCheck(r, header, expected)
  ELSE IF parsed = "malformed" THEN "invalidJson"
  ELSE IF FormatThrows(parsed) THEN "formatThrew"
  ELSE IF Falsy(token) THEN "noToken"
  ELSE "fetch"

\* How the continuation after `await getRawBody(req)` ends
BodyVerdict(r, header, expected, parsed, chat, token) ==
  IF SignatureCheck(r, header, expected) # "passed"
  THEN SignatureCheck(r, header, expected)
  ELSE IF parsed = "malformed" THEN "invalidJson"
  ELSE IF Falsy(chat) THEN "noChatId"
  ELSE IF FormatThrows(parsed) THEN "formatThrew"
  ELSE IF Falsy(token) THEN "noToken"
  ELSE "fetch"

BodySteps(v) ==
  CASE v \in {"lengthMismatch", "threw", "invalid"} -> <<"bodyRead", "signature">>
    [] v = "invalidJson" -> <<"bodyRead", "signature", "parse">>
    [] v = "noChatId" -> <<"bodyRead", "signature", "parse", "target">>
    [] v = "formatThrew" -> <<"bodyRead", "signature", "parse", "target", "format">>
    [] OTHER -> <<"bodyRead", "signature", "parse", "target", "format", "dispatch">>

BodyResponses(v) ==
  CASE v = "lengthMismatch" -> <<LengthMismatch>>
    [] v = "invalid" -> <<InvalidSignature>>
    [] v = "invalidJson" -> <<InvalidJson>>
    [] v = "noChatId" -> <<NoChatId>>
    [] v = "noToken" -> <<SendFailed>>
    [] OTHER -> << >>

BodyPc(v) ==
  CASE v = "fetch" -> "fetching"
    [] v \in {"threw", "formatThrew"} -> "threw"
    [] OTHER -> "done"

\* Debug output that prints the key next to the digest
DebugLogWithSecret(r) ==
  IF HasLengthCheck(r)
  THEN <<LineOf("log", "Calculated expected signature:",
                {"expectedSignature", "secret"})>>
  ELSE << >>

\* The debug lines written between the digest and the comparison: the header
\* as received, the digest computed with the secret, and their lengths
DebugLog(r) ==
  IF HasLengthCheck(r)
  THEN <<LineOf("log", "Received x-vercel-signature header:",
                {"signatureHeader", "byteLength"}),
         LineOf("log", "Calculated expected signature:",
                {"expectedSignature", "byteLength"}),
         LineOf("log", "Signature Header Buffer Length:", {"byteLength"}),
         LineOf("log", "Expected Signature Buffer Length:", {"byteLength"})>>
  ELSE << >>

ParsedLog(r) ==
  IF r = "BareHash"
  THEN <<Line("log", "Signature validation passed."),
         Line("log", "Webhook payload parsed successfully.")>>
  ELSE <<LineOf("log", "Received valid Vercel webhook:", {"payload"})>>

\* The formatter's default branch logs the unhandled type
FormatLog == <<LineOf("log", "Unhandled Vercel event type:", {"eventType", "payload"})>>

BodyLog(r, v) ==
  DebugLog(r)
  \o (CASE v = "lengthMismatch" -> <<LineOf("error", "Signature buffers have different byte lengths.",
                                          IF r = "BareHash" THEN {"byteLength"} ELSE {})>>
        [] v = "threw" -> << >>
        [] v = "invalid" -> <<Line("warn", "Invalid signature.")>>
        [] v = "invalidJson" ->
             (IF r = "BareHash" THEN <<Line("log", "Signature validation passed.")>> ELSE << >>)
             \o <<LineOf("error", "Error parsing JSON payload:", {"error"})>>
        [] v = "noChatId" ->
             ParsedLog(r) \o <<Line("error", "TELEGRAM_TARGET_CHAT_ID environment variable not set.")>>
        [] v = "formatThrew" -> ParsedLog(r)
        [] v = "noToken" ->
             ParsedLog(r) \o FormatLog
             \o <<Line("error", "Error: TELEGRAM_BOT_TOKEN environment variable not set.")>>
        [] OTHER -> ParsedLog(r) \o FormatLog)

-----------------------------------------------------------------------------
(* The handler without verification (part_000) *)

\* The bodies the framework may have buffered for it
FrameworkBodies == SignedBodies \cup {<<"O">>}

\* How its synchronous part ends; parserThrew: reading req.body threw
LegacyVerdict(m, parserThrew, chat, token) ==
  IF m # "POST" THEN "methodNotAllowed"
  ELSE IF parserThrew THEN "internalError"
  ELSE IF Falsy(chat) THEN "noChatId"
  ELSE IF Falsy(token) THEN "noToken"
  ELSE "fetch"

LegacySteps(v) ==
  CASE v = "methodNotAllowed" -> <<"method">>
    [] v = "internalError" -> <<"method", "parse">>
    [] v = "noChatId" -> <<"method", "parse", "target">>
    [] OTHER -> <<"method", "parse", "target", "dispatch">>

LegacyResponses(v) ==
  CASE v = "methodNotAllowed" -> <<MethodNotAllowed>>
    [] v = "internalError" -> <<InternalError>>
    [] v = "noChatId" -> <<NoChatId>>
    [] v = "noToken" -> <<SendFailed>>
    [] OTHER -> << >>

LegacyLog(v) ==
  CASE v = "internalError" -> <<LineOf("error", "Error processing Vercel webhook:", {"error"})>>
    [] v = "noToken" -> <<Line("error", "Error: TELEGRAM_BOT_TOKEN environment variable not set.")>>
    [] OTHER -> << >>

-----------------------------------------------------------------------------
(* The state machine *)

\* No pure function is under study / nothing was returned
NoCall == [fn |-> "none", arg |-> << >>]
NoResult == [threw |-> FALSE, value |-> << >>]

EnvSecrets == {Unset, "k1"}
EnvChatIds == {Unset, "chat"}
EnvBotTokens == {Unset, "token"}

Init ==
  /\ rev \in Revs
  /\ method \in Methods
  /\ headerSig \in HeaderValues
  /\ envSecret \in EnvSecrets
  /\ envChatId \in EnvChatIds
  /\ envBotToken \in EnvBotTokens
  /\ pc = "start"
  /\ chunks = << >>
  /\ rawBody = << >>
  /\ webhook = "none"
  /\ steps = << >>
  /\ tseCalls = << >>
  /\ responses = << >>
  /\ fetchCalls = 0
  /\ fetched = "none"
  /\ sendResult = "none"
  /\ log = << >>
  /\ remoteBody = "none"
  /\ pureIn = NoCall
  /\ pureOut = NoResult
  /\ inflight = << >>
  /\ buffers = << >>

request == <<rev, method, headerSig, envSecret, envChatId, envBotToken>>
pure == <<pureIn, pureOut>>
concurrent == <<inflight, buffers>>

\* handler(req, res) of a verifying revision, to its first await or return
Enter ==
  /\ pc = "start"
  /\ rev \in Verifying
  /\ LET v == EntryVerdict(method, envSecret, headerSig) IN
       /\ pc' = IF v = "read" THEN "reading" ELSE "done"
       /\ steps' = EntrySteps(v)
       /\ responses' = EntryResponses(v)
       /\ log' = EntryLog(rev, v)
  /\ UNCHANGED <<request, pure, concurrent, chunks, rawBody, webhook, tseCalls, fetchCalls, fetched,
                 sendResult, remoteBody>>

\* req.on("data", (chunk) => chunks.push(chunk))
StreamData(chunk) ==
  /\ pc = "reading"
  /\ Len(chunks) < MaxChunks
  /\ chunks' = Append(chunks, chunk)
  /\ UNCHANGED <<request, pure, concurrent, pc, rawBody, webhook, steps, tseCalls, responses,
                 fetchCalls, fetched, sendResult, log, remoteBody>>

\* req.on("error", reject), caught by the handler
StreamError ==
  /\ pc = "reading"
  /\ pc' = "done"
  /\ steps' = steps \o <<"bodyRead">>
  /\ responses' = <<BodyError>>
  /\ log' = log \o <<LineOf("error", "Error reading raw body:", {"error"})>>
  /\ UNCHANGED <<request, pure, concurrent, chunks, rawBody, webhook, tseCalls, fetchCalls, fetched,
                 sendResult, remoteBody>>

\* req.on("end", () => resolve(Buffer.concat(chunks))) and the handler's
\* continuation to its next await or return
StreamEnd ==
  /\ pc = "reading"
  /\ LET body == Concat(chunks)
         expected == ExpectedSignature(rev, body, envSecret)
         parsed == JsonParse(body)
         v == BodyVerdict(rev, headerSig, expected, parsed, envChatId, envBotToken)
     IN
       /\ rawBody' = body
       /\ tseCalls' = IF ComparisonInvoked(rev, headerSig, expected)
                      THEN <<<<ByteLength(headerSig), ByteLength(expected)>>>>
                      ELSE << >>
       /\ webhook' = IF v \in {"lengthMismatch", "threw", "invalid"} THEN "none" ELSE parsed
       /\ steps' = steps \o BodySteps(v)
       /\ responses' = BodyResponses(v)
       /\ pc' = BodyPc(v)
       /\ fetchCalls' = IF v = "fetch" THEN 1 ELSE 0
       /\ sendResult' = IF v = "noToken" THEN "false" ELSE "none"
       /\ log' = log \o BodyLog(rev, v)
  /\ UNCHANGED <<request, pure, concurrent, chunks, fetched, remoteBody>>

\* handler(req, res) of part_000, to its first await or return
LegacyHandle(body, parserThrew) ==
  /\ pc = "start"
  /\ rev = "Legacy"
  /\ parserThrew => JsonParse(body) = "malformed"
  /\ LET v == LegacyVerdict(method, parserThrew, envChatId, envBotToken) IN
       /\ rawBody' = body
       /\ webhook' = CASE v = "methodNotAllowed" -> "none"
                       [] JsonParse(body) = "malformed" /\ ~parserThrew -> "raw"
                       [] OTHER -> JsonParse(body)
       /\ steps' = LegacySteps(v)
       /\ responses' = LegacyResponses(v)
       /\ pc' = IF v = "fetch" THEN "fetching" ELSE "done"
       /\ fetchCalls' = IF v = "fetch" THEN 1 ELSE 0
       /\ sendResult' = IF v = "noToken" THEN "false" ELSE "none"
       /\ log' = LegacyLog(v)
  /\ UNCHANGED <<request, pure, concurrent, chunks, tseCalls, fetched, remoteBody>>

\* What the outer catch of sendTelegramMessage writes
FaultLog ==
  <<LineOf("error", "Network or fetch error sending Telegram message", {"chatId", "error"})>>

\* A retrying dispatcher: the fault handler issues the call again
OnFetchFaultRetry(calls) == [pc |-> "fetching", calls |-> calls + 1, result |-> "none"]

\* The catch around the remote call: log, return false, no second attempt
OnFetchFault(calls) == [pc |-> "done", calls |-> calls, result |-> "false"]

\* await fetch(...) rejects: the outer catch returns false and the handler
\* answers
FetchRejects ==
  /\ pc = "fetching"
  /\ pc' = OnFetchFault(fetchCalls).pc
  /\ fetchCalls' = OnFetchFault(fetchCalls).calls
  /\ sendResult' = OnFetchFault(fetchCalls).result
  /\ responses' = IF OnFetchFault(fetchCalls).pc = "done" THEN <<Outcome(FALSE)>> ELSE responses
  /\ log' = log \o FaultLog
  /\ UNCHANGED <<request, pure, concurrent, chunks, rawBody, webhook, steps, tseCalls, fetched, remoteBody>>

\* await fetch(...) resolves with a Response; response.json() is awaited next
FetchResolves(ok2xx) ==
  /\ pc = "fetching"
  /\ pc' = "readingJson"
  /\ fetched' = IF ok2xx THEN "ok" ELSE "notOk"
  /\ UNCHANGED <<request, pure, concurrent, chunks, rawBody, webhook, steps, tseCalls, responses,
                 fetchCalls, sendResult, log, remoteBody>>

SendLog(ok2xx, body) ==
  CASE ~ok2xx /\ body = "unparseable" ->
         <<LineOf("error", "Telegram API Error: Failed to parse error response body.",
                  {"chatId", "status", "statusText"})>>
    [] ~ok2xx -> <<LineOf("error", "Telegram API Error",
                          {"chatId", "status", "description", "statusText"})>>
    [] body = "okTrue" -> <<LineOf("log", "Message sent successfully", {"chatId", "result"})>>
    [] body = "okFalse" -> <<LineOf("error", "Telegram API reported not OK",
                                   {"chatId", "description"})>>
    [] OTHER -> FaultLog

\* The exception raised while the Response is handled, if any: response.json()
\* rejects on an unparseable body, and responseData.ok of JSON null is a
\* TypeError
Raised(ok2xx, body) ==
  CASE body = "unparseable" -> "SyntaxError"
    [] ok2xx /\ body = "null" -> "TypeError"
    [] OTHER -> "none"

\* sendTelegramMessage with no catch around the handling of a 2xx Response
SendReturnUncaught(ok2xx, body) ==
  IF Raised(ok2xx, body) # "none" THEN (IF ok2xx THEN "threw" ELSE "false")
  ELSE IF SendOutcome(ok2xx, body) THEN "true" ELSE "false"

\* What sendTelegramMessage returns once response.json() has settled: the inner
\* catch (non-2xx) and the outer catch both return false
SendReturn(ok2xx, body) ==
  IF Raised(ok2xx, body) # "none" THEN "false"
  ELSE IF SendOutcome(ok2xx, body) THEN "true" ELSE "false"

\* What the handler does with the dispatcher's result: only part_000 has a
\* try/catch around the call
AfterSend(r, result) ==
  CASE result = "true" -> [pc |-> "done", responses |-> <<Sent>>]
    [] result = "false" -> [pc |-> "done", responses |-> <<SendFailed>>]
    [] r = "Legacy" -> [pc |-> "done", responses |-> <<InternalError>>]
    [] OTHER -> [pc |-> "threw", responses |-> << >>]

\* await response.json() settles; sendTelegramMessage returns and the handler
\* answers
JsonSettles(body) ==
  /\ pc = "readingJson"
  /\ remoteBody' = body
  /\ sendResult' = SendReturn(fetched = "ok", body)
  /\ pc' = AfterSend(rev, SendReturn(fetched = "ok", body)).pc
  /\ responses' = AfterSend(rev, SendReturn(fetched = "ok", body)).responses
  /\ log' = log \o SendLog(fetched = "ok", body)
  /\ UNCHANGED <<request, pure, concurrent, chunks, rawBody, webhook, steps, tseCalls, fetchCalls, fetched>>

Next ==
  \/ Enter
  \/ \E c \in ChunkSet : StreamData(c)
  \/ StreamError
  \/ StreamEnd
  \/ \E b \in FrameworkBodies, t \in BOOLEAN : LegacyHandle(b, t)
  \/ FetchRejects
  \/ \E ok \in BOOLEAN : FetchResolves(ok)
  \/ \E b \in ResponseBodies : JsonSettles(b)

Spec == Init /\ [][Next]_vars

\* What the runtime and the two provisos of the response guarantee: the
\* handler is run; the body stream emits 'end' or 'error'; the remote call,
\* once made, settles, and so does the reading of its body
Fairness ==
  /\ WF_vars(Enter)
  /\ WF_vars(\E b \in FrameworkBodies, t \in BOOLEAN : LegacyHandle(b, t))
  /\ WF_vars(StreamEnd \/ StreamError)
  /\ WF_vars(FetchRejects \/ \E ok \in BOOLEAN : FetchResolves(ok))
  /\ WF_vars(\E b \in ResponseBodies : JsonSettles(b))

SpecLive == Spec /\ Fairness

-----------------------------------------------------------------------------
(* escapeMarkdown *)

\* Longest text handed to escapeMarkdown
MaxLen == 2

\* The characters of charsToEscape (the backquote is written "<bq>")
Reserved == {"_", "*", "[", "]", "(", ")", "~", "<bq>", ">", "#", "+", "-", "=",
             "|", "{", "}", ".", "!"}

Backslash == "\\"

\* Reserved characters, an ordinary character and the backslash
Alphabet == Reserved \cup {"a", Backslash}

Texts == UNION {[1..n -> Alphabet] : n \in 0..MaxLen}

\* JavaScript values: a string of characters, undefined, null, a number
Str(s) == [t |-> "string", s |-> s]
Undefined == [t |-> "undefined", s |-> << >>]
Null == [t |-> "null", s |-> << >>]
Num == [t |-> "number", s |-> << >>]

\* What a call gave: a value, or an exception
Returned(v) == [threw |-> FALSE, value |-> v]
Threw == [threw |-> TRUE, value |-> << >>]

\* A replacement that leaves alone a reserved character that already has a
\* backslash before it
RECURSIVE ReplaceAfter(_, _)
ReplaceAfter(s, escaped) ==
  IF s = << >> THEN << >>
  ELSE (IF Head(s) \in Reserved /\ ~escaped THEN <<Backslash, Head(s)>> ELSE <<Head(s)>>)
       \o ReplaceAfter(Tail(s), Head(s) = Backslash /\ ~escaped)

ReplaceUnlessEscaped(s) == ReplaceAfter(s, FALSE)

\* text.replace(charsToEscape, "\\$&"): every match is replaced by a backslash
\* and the match itself
RECURSIVE Replace(_)
Replace(s) ==
  IF s = << >> THEN << >>
  ELSE (IF Head(s) \in Reserved THEN <<Backslash, Head(s)>> ELSE <<Head(s)>>)
       \o Replace(Tail(s))

\* undefined and null give ""; a string is replaced; any other value has no
\* replace method (TypeError)
escapeMarkdown(text) ==
  CASE text.t \in {"undefined", "null"} -> Returned(<< >>)
    [] text.t = "string" -> Returned(Replace(text.s))
    [] OTHER -> Threw

EscapeArgs == {Str(t) : t \in Texts} \cup {Undefined, Null, Num}

-----------------------------------------------------------------------------
(* formatVercelMessageForTelegram *)

\* Longest alias list of a deployment
MaxAlias == 2

\* JavaScript truthiness of a string-or-absent value
Truthy(v) == v.t = "number" \/ (v.t = "string" /\ v.s # << >>)

\* a || b
Or(a, b) == IF Truthy(a) THEN a ELSE b

\* An array of strings, or no array
Arr(items) == [t |-> "array", items |-> items]
NoArr == [t |-> "undefined", items |-> << >>]

\* The event types the switch has a case for
KnownTypes == {"deployment.created", "deployment.succeeded", "deployment.error",
               "deployment.canceled", "deployment.promoted", "project.created",
               "project.removed", "attack.detected"}

TypeTag(name) == Str(<<name>>)

\* Type tags no case matches: an unlisted name, no tag, null, a number
UnknownTags == {Str(<<"project", ".", "renamed">>), Undefined, Null, Num}

\* The webhook fields the formatter reads, none of them present.
\* payload: whether the body has a payload object; date: the text that
\* new Date(createdAt).toLocaleString() gives in the runtime's locale
Blank ==
  [type |-> Undefined, payload |-> TRUE, date |-> <<"Invalid Date">>,
   name |-> Undefined, projectName |-> Undefined, url |-> Undefined,
   inspectorUrl |-> Undefined, attackInspectorUrl |-> Undefined,
   target |-> Undefined, alias |-> NoArr,
   githubCommitRef |-> Undefined, githubCommitAuthorName |-> Undefined,
   errorMessage |-> Undefined, deploymentErrorMessage |-> Undefined,
   errorCode |-> Undefined,
   attackTarget |-> Undefined, attackType |-> Undefined,
   attackDescription |-> Undefined, attackSource |-> Undefined]

\* One piece of a message (the emoji of the titles are left out): fixed text of the template, or a field's text after
\* so many passes of escapeMarkdown
Static(str) == [dyn |-> FALSE, passes |-> 0, src |-> <<str>>, text |-> <<str>>]
Raw(v) == [dyn |-> TRUE, passes |-> 0, src |-> v.s, text |-> v.s]
Esc(v) == [dyn |-> TRUE, passes |-> 1, src |-> v.s, text |-> escapeMarkdown(v).value]
EscTwice(v) ==
  [dyn |-> TRUE, passes |-> 2, src |-> v.s,
   text |-> escapeMarkdown(Str(escapeMarkdown(v).value)).value]

InlineCode(part) == <<Static("<bq>"), part, Static("<bq>")>>

\* payload.deployment?.name || payload.project?.name || "N/A", not yet escaped
ProjectNameSource(w) == Or(w.name, Or(w.projectName, Str(<<"N/A">>)))

\* payload.deployment?.inspectorUrl || payload.attack?.inspectorUrl
InspectorUrl(w) == Or(w.inspectorUrl, w.attackInspectorUrl)

TimeLine(w) == <<Static("*Time:* ")>> \o InlineCode(Esc(Str(w.date)))

addCommonDetails(w, title) ==
  <<<<Static(title)>>,
    <<Static("*Project:* "), Esc(ProjectNameSource(w))>>>>
  \o (IF Truthy(w.url)
      THEN <<<<Static("*Deployment URL:* ["), Esc(w.url), Static("]("), Esc(w.url),
               Static(")")>>>>
      ELSE << >>)
  \o (IF Truthy(InspectorUrl(w))
      THEN <<<<Static("*Details:* [View on Vercel]("), Esc(InspectorUrl(w)),
               Static(")")>>>>
      ELSE << >>)
  \o <<TimeLine(w)>>

\* Aliases interpolated as they came
RECURSIVE AliasPartsRaw(_)
AliasPartsRaw(items) ==
  IF items = << >> THEN << >>
  ELSE InlineCode(Raw(Str(Head(items))))
       \o (IF Len(items) > 1 THEN <<Static(", ")>> ELSE << >>)
       \o AliasPartsRaw(Tail(items))

\* alias.map((a) => `\`${escapeMarkdown(a)}\``).join(", ")
RECURSIVE AliasParts(_)
AliasParts(items) ==
  IF items = << >> THEN << >>
  ELSE InlineCode(Esc(Str(Head(items))))
       \o (IF Len(items) > 1 THEN <<Static(", ")>> ELSE << >>)
       \o AliasParts(Tail(items))

HasAlias(w) == w.alias.t = "array" /\ Len(w.alias.items) > 0

BranchLine(w) ==
  IF Truthy(w.githubCommitRef)
  THEN <<<<Static("*Branch:* ")>> \o InlineCode(Esc(w.githubCommitRef))>>
  ELSE << >>

CreatedLines(w) ==
  addCommonDetails(w, "*Deployment Created*")
  \o BranchLine(w)
  \o (IF Truthy(w.githubCommitAuthorName)
      THEN <<<<Static("*Author:* ")>> \o InlineCode(Esc(w.githubCommitAuthorName))>>
      ELSE << >>)

\* The lines of a succeeded deployment with the branch ahead of the target
SucceededLinesBranchFirst(w) ==
  addCommonDetails(w, "*Deployment Succeeded*")
  \o BranchLine(w)
  \o (IF w.target = Str(<<"production">>)
      THEN <<<<Static("*Target:* ")>> \o InlineCode(Static("PRODUCTION"))>>
      ELSE << >>)
  \o (IF HasAlias(w)
      THEN <<<<Static("*Domains:* ")>> \o AliasParts(w.alias.items)>>
      ELSE << >>)

SucceededLines(w) ==
  addCommonDetails(w, "*Deployment Succeeded*")
  \o (IF w.target = Str(<<"production">>)
      THEN <<<<Static("*Target:* ")>> \o InlineCode(Static("PRODUCTION"))>>
      ELSE << >>)
  \o (IF HasAlias(w)
      THEN <<<<Static("*Domains:* ")>> \o AliasParts(w.alias.items)>>
      ELSE << >>)
  \o BranchLine(w)

NoErrorMessage == Str(<<"No specific error message provided", ".">>)

ErrorLines(w) ==
  addCommonDetails(w, "*Deployment Error*")
  \o <<<<Static("*Error:* "),
         Esc(Or(w.errorMessage, Or(w.deploymentErrorMessage, NoErrorMessage)))>>>>
  \o (IF escapeMarkdown(w.errorCode).value # << >>
      THEN <<<<Static("*Code:* ")>> \o InlineCode(Esc(w.errorCode))>>
      ELSE << >>)

CanceledLines(w) == addCommonDetails(w, "*Deployment Canceled*")

PromotedLines(w) ==
  addCommonDetails(w, "*Deployment Promoted to Production*")
  \o (IF HasAlias(w)
      THEN <<<<Static("*Production Domains:* ")>> \o AliasParts(w.alias.items)>>
      ELSE << >>)

ProjectLines(w, title) ==
  <<<<Static(title)>>,
    <<Static("*Project Name:* "), Esc(ProjectNameSource(w))>>,
    TimeLine(w)>>

\* The target falls back on projectName, which is escaped already
AttackLines(w) ==
  <<<<Static("*Security Attack Detected*")>>,
    <<Static("*Project/Target:* "),
      IF Truthy(w.attackTarget) THEN Esc(w.attackTarget)
      ELSE EscTwice(ProjectNameSource(w))>>,
    <<Static("*Attack Type:* ")>> \o InlineCode(Esc(w.attackType)),
    <<Static("*Description:* "), Esc(w.attackDescription)>>>>
  \o (IF Truthy(w.attackSource)
      THEN <<<<Static("*Source:* ")>> \o InlineCode(Esc(w.attackSource))>>
      ELSE << >>)
  \o <<TimeLine(w)>>

RawPayloadNote ==
  "_Raw payload logged for unhandled event type. Please check server logs._"

DefaultLines(w) ==
  addCommonDetails(w, "*Vercel Notification*")
  \o <<<<Static("*Event Type:* ")>> \o InlineCode(Esc(w.type)),
       <<Static(RawPayloadNote)>>>>

\* switch (type)
messageLines(w) ==
  CASE w.type = TypeTag("deployment.created") -> CreatedLines(w)
    [] w.type = TypeTag("deployment.succeeded") -> SucceededLines(w)
    [] w.type = TypeTag("deployment.error") -> ErrorLines(w)
    [] w.type = TypeTag("deployment.canceled") -> CanceledLines(w)
    [] w.type = TypeTag("deployment.promoted") -> PromotedLines(w)
    [] w.type = TypeTag("project.created") -> ProjectLines(w, "*Project Created*")
    [] w.type = TypeTag("project.removed") -> ProjectLines(w, "*Project Removed*")
    [] w.type = TypeTag("attack.detected") -> AttackLines(w)
    [] OTHER -> DefaultLines(w)

\* messageLines.join("\n")
RECURSIVE Join(_)
Join(lines) ==
  IF lines = << >> THEN << >>
  ELSE Head(lines)
       \o (IF Len(lines) > 1 THEN <<Static("\n")>> ELSE << >>)
       \o Join(Tail(lines))

IsKnown(w) == \E name \in KnownTypes : w.type = TypeTag(name)

\* The TypeErrors of the formatter: payload.deployment of a missing payload,
\* and escapeMarkdown(type) of a tag that is not a string
FormatterThrows(w) ==
  \/ ~w.payload
  \/ ~IsKnown(w) /\ escapeMarkdown(w.type).threw

formatVercelMessageForTelegram(w) ==
  IF FormatterThrows(w) THEN Threw ELSE Returned(Join(messageLines(w)))

\* Field values: absent, empty, with reserved characters, with a backslash
NameValues == {Undefined, Str(<< >>), Str(<<"my", "_", "app">>), Str(<<Backslash, "*">>)}
OptText == {Undefined, Str(<<"x", ".", "y">>)}
CodeValues == {Undefined, Str(<< >>), Str(<<"E", "_", "1">>)}
Targets == {Undefined, Str(<<"production">>), Str(<<"staging">>)}
AliasTexts == {<<"a", ".", "b">>, <<"c">>}
Aliases == {NoArr} \cup {Arr(items) : items \in UNION {[1..n -> AliasTexts] : n \in 0..MaxAlias}}
Dates == {<<"2", ".", "1", ".", "2025, 15:04:05">>, <<"1/2/2025, 3:04:05 PM">>}

\* The fields every branch reads
Common ==
  [name : NameValues, projectName : OptText, url : OptText, inspectorUrl : OptText,
   date : Dates]

\* Events of one type: the common fields and the fields of that type's branch
Events(tag, fields) == {[type |-> tag] @@ f @@ c @@ Blank : c \in Common, f \in fields}

NoMore == [payload : {TRUE}]

Webhooks ==
  Events(TypeTag("deployment.created"),
         [githubCommitRef : OptText, githubCommitAuthorName : OptText])
  \cup Events(TypeTag("deployment.succeeded"),
              [target : Targets, alias : Aliases, githubCommitRef : OptText])
  \cup Events(TypeTag("deployment.error"),
              [errorMessage : OptText, deploymentErrorMessage : OptText,
               errorCode : CodeValues])
  \cup Events(TypeTag("deployment.canceled"), NoMore)
  \cup Events(TypeTag("deployment.promoted"), [alias : Aliases])
  \cup Events(TypeTag("project.created"), NoMore)
  \cup Events(TypeTag("project.removed"), NoMore)
  \cup Events(TypeTag("attack.detected"),
              [attackTarget : OptText, attackType : OptText,
               attackDescription : OptText, attackSource : OptText,
               attackInspectorUrl : OptText])
  \cup UNION {Events(tag, NoMore) : tag \in UnknownTags}
  \cup {[Blank EXCEPT !.payload = FALSE, !.type = tag] :
          tag \in UnknownTags \cup {TypeTag(name) : name \in KnownTypes}}

\* The handler's variables while a pure function is studied on its own
InitPure ==
  /\ rev = "BareHash"
  /\ method = "POST"
  /\ headerSig = Absent
  /\ envSecret = Unset
  /\ envChatId = Unset
  /\ envBotToken = Unset
  /\ pc = "pure"
  /\ chunks = << >>
  /\ rawBody = << >>
  /\ webhook = "none"
  /\ steps = << >>
  /\ tseCalls = << >>
  /\ responses = << >>
  /\ fetchCalls = 0
  /\ fetched = "none"
  /\ sendResult = "none"
  /\ log = << >>
  /\ remoteBody = "none"
  /\ pureIn = NoCall
  /\ pureOut = NoResult
  /\ inflight = << >>
  /\ buffers = << >>

handling == <<request, pc, chunks, rawBody, webhook, steps, tseCalls, responses,
              fetchCalls, fetched, sendResult, log, remoteBody>>

\* escapeMarkdown(text) is called
CallEscape(text) ==
  /\ pc = "pure"
  /\ pureIn.fn = "none"
  /\ pureIn' = [fn |-> "escapeMarkdown", arg |-> text]
  /\ pureOut' = escapeMarkdown(text)
  /\ UNCHANGED <<handling, concurrent>>

\* formatVercelMessageForTelegram(webhook) is called
CallFormat(w) ==
  /\ pc = "pure"
  /\ pureIn.fn = "none"
  /\ pureIn' = [fn |-> "formatVercelMessageForTelegram", arg |-> w]
  /\ pureOut' = formatVercelMessageForTelegram(w)
  /\ UNCHANGED <<handling, concurrent>>

NextPure ==
  \/ \E text \in EscapeArgs : CallEscape(text)
  \/ \E w \in Webhooks : CallFormat(w)

SpecPure == InitPure /\ [][NextPure]_vars

-----------------------------------------------------------------------------
(* Two requests handled at once by one process *)

Reqs == {1, 2}

\* What the two senders may put in the signature header
SenderHeaders ==
  {SigStr("hmac", FALSE, <<"O", "P", "C">>, "k1", 0),
   SigStr("hmac", FALSE, <<"O", "C">>, "k1", 0),
   Absent}

\* A request the runtime has just handed to handler(req, res)
Arriving(m, h) ==
  [method |-> m, headerSig |-> h, pc |-> "start", delivered |-> << >>, failed |-> FALSE,
   rawBody |-> << >>, responses |-> << >>, fetchCalls |-> 0, fetched |-> "none",
   remoteBody |-> "none", sendResult |-> "none"]

\* One chunks array for all the calls of getRawBody
ChunksOfModule(i) == 1

\* const chunks: Buffer[] = [] is a local of the Promise executor: each call of
\* getRawBody has its own
ChunksOf(i) == i

\* The handler's variables are idle; the configuration is read once per
\* process and is the same for both requests
InitTwo ==
  /\ rev = "BareHash"
  /\ method = "POST"
  /\ headerSig = Absent
  /\ envSecret \in EnvSecrets
  /\ envChatId \in EnvChatIds
  /\ envBotToken \in EnvBotTokens
  /\ pc = "concurrent"
  /\ chunks = << >>
  /\ rawBody = << >>
  /\ webhook = "none"
  /\ steps = << >>
  /\ tseCalls = << >>
  /\ responses = << >>
  /\ fetchCalls = 0
  /\ fetched = "none"
  /\ sendResult = "none"
  /\ log = << >>
  /\ remoteBody = "none"
  /\ pureIn = NoCall
  /\ pureOut = NoResult
  /\ inflight \in [Reqs -> {Arriving(m, h) : m \in Methods, h \in SenderHeaders}]
  /\ buffers = [i \in Reqs |-> << >>]

\* Request i goes on as r; nothing else of the process changes
Becomes(i, r) ==
  /\ inflight' = [inflight EXCEPT ![i] = r]
  /\ UNCHANGED <<handling, pure>>

\* handler(req, res) runs for request i up to await getRawBody(req)
Arrive(i) ==
  /\ pc = "concurrent"
  /\ inflight[i].pc = "start"
  /\ LET v == EntryVerdict(inflight[i].method, envSecret, inflight[i].headerSig) IN
       Becomes(i, [inflight[i] EXCEPT
                     !.pc = IF v = "read" THEN "reading" ELSE "done",
                     !.responses = EntryResponses(v)])
  /\ UNCHANGED buffers

\* 'data' on the stream of request i
Data(i, chunk) ==
  /\ pc = "concurrent"
  /\ inflight[i].pc = "reading"
  /\ Len(inflight[i].delivered) < MaxChunks
  /\ buffers' = [buffers EXCEPT ![ChunksOf(i)] = Append(@, chunk)]
  /\ Becomes(i, [inflight[i] EXCEPT !.delivered = Append(@, chunk)])

\* 'error' on the stream of request i
Error(i) ==
  /\ pc = "concurrent"
  /\ inflight[i].pc = "reading"
  /\ Becomes(i, [inflight[i] EXCEPT !.pc = "done", !.failed = TRUE,
                                    !.responses = <<BodyError>>])
  /\ UNCHANGED buffers

\* 'end' on the stream of request i, and its handler's continuation
End(i) ==
  /\ pc = "concurrent"
  /\ inflight[i].pc = "reading"
  /\ LET body == Concat(buffers[ChunksOf(i)])
         v == BodyVerdict(rev, inflight[i].headerSig,
                          ExpectedSignature(rev, body, envSecret), JsonParse(body),
                          envChatId, envBotToken)
     IN Becomes(i, [inflight[i] EXCEPT
                      !.rawBody = body,
                      !.pc = BodyPc(v),
                      !.responses = BodyResponses(v),
                      !.fetchCalls = IF v = "fetch" THEN 1 ELSE 0,
                      !.sendResult = IF v = "noToken" THEN "false" ELSE "none"])
  /\ UNCHANGED buffers

\* The remote call of request i rejects
Rejects(i) ==
  /\ pc = "concurrent"
  /\ inflight[i].pc = "fetching"
  /\ Becomes(i, [inflight[i] EXCEPT
                   !.pc = OnFetchFault(inflight[i].fetchCalls).pc,
                   !.fetchCalls = OnFetchFault(inflight[i].fetchCalls).calls,
                   !.sendResult = OnFetchFault(inflight[i].fetchCalls).result,
                   !.responses = IF OnFetchFault(inflight[i].fetchCalls).pc = "done"
                                 THEN <<Outcome(FALSE)>> ELSE @])
  /\ UNCHANGED buffers

\* The remote call of request i resolves with a Response
Resolves(i, ok2xx) ==
  /\ pc = "concurrent"
  /\ inflight[i].pc = "fetching"
  /\ Becomes(i, [inflight[i] EXCEPT !.pc = "readingJson",
                                    !.fetched = IF ok2xx THEN "ok" ELSE "notOk"])
  /\ UNCHANGED buffers

\* response.json() of request i settles
Settles(i, body) ==
  /\ pc = "concurrent"
  /\ inflight[i].pc = "readingJson"
  /\ LET result == SendReturn(inflight[i].fetched = "ok", body) IN
       Becomes(i, [inflight[i] EXCEPT
                     !.remoteBody = body,
                     !.sendResult = result,
                     !.pc = AfterSend(rev, result).pc,
                     !.responses = AfterSend(rev, result).responses])
  /\ UNCHANGED buffers

NextTwo ==
  \/ \E i \in Reqs : Arrive(i)
  \/ \E i \in Reqs, c \in ChunkSet : Data(i, c)
  \/ \E i \in Reqs : Error(i)
  \/ \E i \in Reqs : End(i)
  \/ \E i \in Reqs : Rejects(i)
  \/ \E i \in Reqs, ok \in BOOLEAN : Resolves(i, ok)
  \/ \E i \in Reqs, b \in ResponseBodies : Settles(i, b)

SpecTwo == InitTwo /\ [][NextTwo]_vars

-----------------------------------------------------------------------------
(* Vocabulary of the properties *)

\* The pipeline of section 4.4, in its order
Pipeline == <<"method", "config", "header", "bodyRead", "signature", "parse",
              "target", "format", "dispatch">>

Did(step) == \E i \in DOMAIN steps : steps[i] = step
Count(step) == Cardinality({i \in DOMAIN steps : steps[i] = step})
IsPrefix(s, t) == Len(s) <= Len(t) /\ \A i \in DOMAIN s : s[i] = t[i]

\* The handler has returned or thrown
Ended == pc \in {"done", "threw"}
Answered(status) == \E i \in DOMAIN responses : responses[i].status = status

\* The value this request's header is compared against, once the body is read
Expected == ExpectedSignature(rev, rawBody, envSecret)
\* The handler compared the header with the expected value and found them equal
SignaturePassed == Did("signature") /\ headerSig = Expected

-----------------------------------------------------------------------------
(* C1 *)

\* C1: in the handlers at lines 28-103 and 135-243, once a POST with the secret
\* configured and the signature header present has had its body read, a header
\* whose byte length differs from that of the expected value is answered 401,
\* timingSafeEqual was not invoked, the handler did not throw and the
\* dispatcher was not invoked.
C1_LengthMismatchIs401 ==
  (/\ rev \in {"PrefixedNoLen", "BareHash"}
   /\ Did("signature")
   /\ ByteLength(headerSig) # ByteLength(Expected))
  => /\ pc = "done"
     /\ Len(responses) = 1
     /\ responses[1].status = 401
     /\ tseCalls = << >>
     /\ ~Did("dispatch")

-----------------------------------------------------------------------------
(* C2 *)

\* C2: in the handlers at lines 135-243 and part_000, the formatter and the
\* dispatcher are invoked only for a POST with the secret configured, the
\* header present, the body read, the signature check passed, the body parsed
\* as JSON and the chat id configured, the steps having been taken in the
\* pipeline's order.
C2_DispatchOnlyAfterAllChecks ==
  (rev \in {"BareHash", "Legacy"} /\ (Did("format") \/ Did("dispatch")))
  => /\ method = "POST"
     /\ ~Falsy(envSecret)
     /\ ~HeaderFalsy(headerSig)
     /\ Did("bodyRead")
     /\ SignaturePassed
     /\ JsonParse(rawBody) # "malformed"
     /\ ~Falsy(envChatId)
     /\ IsPrefix(steps, Pipeline)

-----------------------------------------------------------------------------
(* C3 *)

\* C3: in the handlers at lines 135-243 and part_000, the body is parsed as
\* JSON only after the signature check of the request has passed, a 400 is
\* sent only to a request whose signature verified, and a POST (secret
\* configured, body received) whose header is not the expected value and whose
\* body is malformed JSON is answered 401.
C3_ParseOnlyAfterVerification ==
  rev \in {"BareHash", "Legacy"}
  => /\ Did("parse") => SignaturePassed
     /\ Answered(400) => SignaturePassed
     /\ (/\ Ended
         /\ Did("parse") \/ Did("signature")
         /\ headerSig # Expected
         /\ JsonParse(rawBody) = "malformed")
        => (Len(responses) = 1 /\ responses[1].status = 401)

-----------------------------------------------------------------------------
(* C4 *)

\* C4: in the handlers at lines 28-103 and 135-243, whatever the outcome of
\* the steps, no exception leaves the handler, at most one response is ever
\* sent and a handler that has ended has sent exactly one, with status 200,
\* 400, 401, 405 or 500; a comparison that throws is answered 401.
C4_OneResponseNoThrow ==
  rev \in {"PrefixedNoLen", "BareHash"}
  => /\ pc # "threw"
     /\ Len(responses) <= 1
     /\ Ended => /\ Len(responses) = 1
                 /\ responses[1].status \in {200, 400, 401, 405, 500}
     /\ (Did("signature") /\ timingSafeEqual(headerSig, Expected) = "RangeError")
        => Answered(401)

-----------------------------------------------------------------------------
(* C5 *)

\* C5: the response is that of the earliest failing step. Whatever the
\* revision, a non-POST request is answered 405 with Allow: POST and nothing
\* else is looked at. In the verifying handlers the steps taken are a prefix of
\* the pipeline; a POST with the secret missing is answered 500 whatever the
\* header; a POST with the header missing is answered 401 and the body stream
\* is never read; a failed signature check is never answered 400 or 200 and
\* nothing is parsed; malformed JSON is answered 400 whatever the chat id; a
\* missing chat id is answered 200 with neither formatter nor dispatcher run.
C5_EarliestFailingStepAnswers ==
  /\ (pc # "start" /\ method # "POST")
     => (responses = <<MethodNotAllowed>> /\ steps = <<"method">> /\ pc = "done")
  /\ (rev \in Verifying /\ pc # "start")
     => /\ IsPrefix(steps, Pipeline)
        /\ (method = "POST" /\ Falsy(envSecret))
           => (responses = <<ConfigError>> /\ steps = <<"method", "config">>)
        /\ (method = "POST" /\ ~Falsy(envSecret) /\ HeaderFalsy(headerSig))
           => /\ responses = <<SignatureMissing>>
              /\ pc = "done"
              /\ ~Did("bodyRead")
              /\ chunks = << >>
        /\ (Did("signature") /\ headerSig # Expected)
           => (~Did("parse") /\ ~Answered(400) /\ ~Answered(200))
        /\ (SignaturePassed /\ JsonParse(rawBody) = "malformed")
           => responses = <<InvalidJson>>
        /\ (SignaturePassed /\ JsonParse(rawBody) # "malformed" /\ Falsy(envChatId))
           => (responses = <<NoChatId>> /\ ~Did("format") /\ ~Did("dispatch"))

\* A POST with both the secret and the header missing has been answered 500
C5_Witness ==
  /\ rev = "BareHash"
  /\ method = "POST"
  /\ Falsy(envSecret)
  /\ HeaderFalsy(headerSig)
  /\ pc = "done"
  /\ responses = <<ConfigError>>

-----------------------------------------------------------------------------
(* C6 *)

\* C6: in the handlers at lines 135-243 and 274-379, a POST whose header is
\* the lowercase hex HMAC-SHA1 of the received body under the configured
\* secret passes the signature check and is not answered 401.
C6_OwnDigestVerifies ==
  (/\ rev \in {"BareHash", "PrefixedLen"}
   /\ Did("signature")
   /\ headerSig = calculateSha1Hash(rawBody, envSecret))
  => /\ SignatureCheck(rev, headerSig, Expected) = "passed"
     /\ ~Answered(401)

-----------------------------------------------------------------------------
(* C7 *)

\* C7: no false positives. In the verifying handlers the signature check
\* passes (the handler goes on to parse) only when the header equals the
\* expected value computed from the received body and the configured secret;
\* in those that check the length first, a header that is the digest, under
\* the configured secret, of a body other than the received one is answered
\* 401 and the dispatcher is not invoked.
C7_NoFalsePositives ==
  (rev \in Verifying /\ Did("signature"))
  => /\ Did("parse") => headerSig = Expected
     /\ (/\ HasLengthCheck(rev)
         /\ headerSig.kind = "hmac"
         /\ headerSig.key = envSecret
         /\ headerSig.body # rawBody)
        => /\ pc = "done"
           /\ Len(responses) = 1
           /\ responses[1].status = 401
           /\ ~Did("dispatch")
           /\ fetchCalls = 0

\* The bare digest of another body, of the right length, has been answered 401
C7_Witness ==
  /\ rev = "BareHash"
  /\ Did("signature")
  /\ headerSig.kind = "hmac"
  /\ ~headerSig.pre
  /\ headerSig.key = envSecret
  /\ headerSig.body # rawBody
  /\ responses = <<InvalidSignature>>

-----------------------------------------------------------------------------
(* C8 *)

\* C8: in the handler at lines 135-243 every authentication failure gets the
\* same response. A request without the header is such a failure and is
\* answered with SignatureMissing, so the claim says that every 401 is that
\* response.
C8_AuthFailuresAnsweredAlike ==
  (rev = "BareHash" /\ Answered(401)) => responses = <<SignatureMissing>>

-----------------------------------------------------------------------------
(* C9 *)

\* C9: at most one notification attempt. The handler invokes the dispatcher at
\* most once, the dispatcher issues at most one remote call and only when
\* invoked, and once it has reported failure the handler has ended: nothing is
\* retried.
C9_AtMostOneAttempt ==
  /\ Count("dispatch") <= 1
  /\ fetchCalls <= 1
  /\ fetchCalls = 1 => Did("dispatch")
  /\ sendResult = "false" => pc = "done"

\* The one remote call failed at the network layer and the handler has ended
C9_Witness ==
  /\ Did("dispatch")
  /\ fetchCalls = 1
  /\ fetched = "none"
  /\ sendResult = "false"
  /\ pc = "done"

-----------------------------------------------------------------------------
(* C10 *)

\* C10: in the handler at lines 135-243, a POST with a correct signature,
\* valid JSON and the chat id configured is answered, with 200 exactly when
\* the dispatcher reported success and with 500 otherwise.
C10_StatusFollowsDispatch ==
  (/\ rev = "BareHash"
   /\ Ended
   /\ SignaturePassed
   /\ JsonParse(rawBody) # "malformed"
   /\ ~Falsy(envChatId))
  => /\ Len(responses) = 1
     /\ responses[1].status = 200 <=> sendResult = "true"
     /\ sendResult # "true" => responses[1].status = 500

-----------------------------------------------------------------------------
(* C11 *)

\* C11: in the verifying handlers, a POST whose signature check passed and
\* whose body parsed as JSON, handled with no chat id configured, is answered
\* 200 with the acknowledgment text; the formatter and the dispatcher are not
\* invoked and no remote call is made.
C11_NoChatIdAcknowledged ==
  (/\ rev \in Verifying
   /\ SignaturePassed
   /\ JsonParse(rawBody) # "malformed"
   /\ Falsy(envChatId))
  => /\ pc = "done"
     /\ responses = <<NoChatId>>
     /\ ~Did("format")
     /\ ~Did("dispatch")
     /\ fetchCalls = 0
     /\ sendResult = "none"

\* A correctly signed event was acknowledged with no chat id configured
C11_Witness ==
  /\ rev = "BareHash"
  /\ SignaturePassed
  /\ JsonParse(rawBody) = "event"
  /\ Falsy(envChatId)
  /\ responses = <<NoChatId>>

-----------------------------------------------------------------------------
(* C12, C13 *)

\* The remote call completed and the body of its Response was read
Completed == remoteBody # "none"

\* The remote call was issued and rejected (a network-layer fault)
NetworkFault == fetchCalls = 1 /\ fetched = "none" /\ pc # "fetching"

\* C12: sendTelegramMessage returns true if and only if the remote call
\* completed with a 2xx status and the parsed body has ok equal to true; a 2xx
\* response with ok:false returns false and every non-2xx response returns
\* false whatever its body is.
C12_TrueIffStatusAndOk ==
  /\ sendResult = "true" => (Completed /\ fetched = "ok" /\ remoteBody = "okTrue")
  /\ (Completed /\ fetched = "ok" /\ remoteBody = "okTrue") => sendResult = "true"
  /\ (Completed /\ fetched = "ok" /\ remoteBody = "okFalse") => sendResult = "false"
  /\ (Completed /\ fetched = "notOk") => sendResult = "false"

\* A 2xx response whose body says ok:false was reported as a failure
C12_Witness ==
  /\ fetched = "ok"
  /\ remoteBody = "okFalse"
  /\ sendResult = "false"

\* C13: sendTelegramMessage never throws to its caller. A network-layer fault,
\* a non-2xx response with an unparseable body and a 2xx response with an
\* unparseable body are each reported as the return value false.
C13_DispatcherNeverThrows ==
  /\ sendResult \in {"none", "true", "false"}
  /\ Did("dispatch") => pc # "threw"
  /\ NetworkFault => sendResult = "false"
  /\ (Completed /\ remoteBody = "unparseable") => sendResult = "false"

\* A 2xx response whose body is not JSON was reported as the value false
C13_Witness ==
  /\ fetched = "ok"
  /\ remoteBody = "unparseable"
  /\ sendResult = "false"
  /\ responses = <<SendFailed>>

-----------------------------------------------------------------------------
(* C16 *)

\* escapeMarkdown was called with this kind of value
Escaped(kind) == pureIn.fn = "escapeMarkdown" /\ pureIn.arg.t = kind

\* How the target syntax reads an escaped text: a backslash followed by a
\* character yields that character literally
RECURSIVE Unescape(_)
Unescape(s) ==
  IF s = << >> THEN << >>
  ELSE IF Head(s) = Backslash /\ Len(s) >= 2
       THEN <<s[2]>> \o Unescape(SubSeq(s, 3, Len(s)))
       ELSE <<Head(s)>> \o Unescape(Tail(s))

\* C16: escape round trip. For every text over the reserved characters, an
\* ordinary character and the backslash, un-escaping escapeMarkdown(t) gives
\* back t; escapeMarkdown(null) and escapeMarkdown(undefined) are "".
C16_EscapeRoundTrip ==
  /\ Escaped("string") => (~pureOut.threw /\ Unescape(pureOut.value) = pureIn.arg.s)
  /\ (Escaped("null") \/ Escaped("undefined")) => pureOut = Returned(<< >>)

-----------------------------------------------------------------------------
(* C14, C15, C18 *)

\* formatVercelMessageForTelegram was called
Formatted == pureIn.fn = "formatVercelMessageForTelegram"

\* The message has the generic line, carrying this type tag
HasGenericLine(message, tag) ==
  \E i \in 1..(Len(message) - 2) :
    /\ message[i] = Static("*Event Type:* ")
    /\ message[i + 1] = Static("<bq>")
    /\ message[i + 2].dyn
    /\ message[i + 2].src = tag.s

\* C14: an unknown event type is never an error. For every body whose type tag
\* is none of the recognized ones (a missing tag, a tag that is not a string
\* and a body without a payload object included), the formatter returns a
\* message without throwing, and the message has the generic line with the raw
\* type tag.
C14_UnknownTypeNeverFails ==
  (Formatted /\ ~IsKnown(pureIn.arg))
  => /\ ~pureOut.threw
     /\ HasGenericLine(pureOut.value, pureIn.arg.type)

\* Every reserved character of the text has a backslash right before it
Prefixed(text) ==
  \A i \in DOMAIN text : text[i] \in Reserved => (i > 1 /\ text[i - 1] = Backslash)

ReservedIn(text) == Cardinality({i \in DOMAIN text : text[i] \in Reserved})

\* C15: in the formatter's output, every piece of upstream-supplied text went
\* through escapeMarkdown before it was interpolated, so each reserved
\* character of a dynamic field is in the message with a backslash before it.
C15_EveryFieldEscaped ==
  (Formatted /\ ~pureOut.threw)
  => \A i \in DOMAIN pureOut.value :
       pureOut.value[i].dyn
       => /\ pureOut.value[i].passes >= 1
          /\ Prefixed(pureOut.value[i].text)
          /\ ReservedIn(pureOut.value[i].text) = ReservedIn(pureOut.value[i].src)

\* A deployment whose name, URL and two aliases carry reserved characters was
\* formatted
C15_Witness ==
  /\ Formatted
  /\ ~pureOut.threw
  /\ pureIn.arg.type = TypeTag("deployment.succeeded")
  /\ pureIn.arg.name = Str(<<"my", "_", "app">>)
  /\ Truthy(pureIn.arg.url)
  /\ pureIn.arg.alias = Arr(<<<<"a", ".", "b">>, <<"a", ".", "b">>>>)

\* One line of the expected layout, and whether the event calls for it
Slot(on, line) == [on |-> on, line |-> line]

RECURSIVE Chosen(_)
Chosen(slots) ==
  IF slots = << >> THEN << >>
  ELSE (IF Head(slots).on THEN <<Head(slots).line>> ELSE << >>) \o Chosen(Tail(slots))

\* Each alias escaped and in inline code, separated by ", "
DomainList(items) ==
  [i \in 1..(4 * Len(items) - 1) |->
     CASE i % 4 = 0 -> Static(", ")
       [] i % 4 = 2 -> Esc(Str(items[(i + 2) \div 4]))
       [] OTHER -> Static("<bq>")]

\* The layout of a succeeded deployment, in its order
SucceededLayout(w) ==
  <<Slot(TRUE, <<Static("*Deployment Succeeded*")>>),
    Slot(TRUE, <<Static("*Project:* "), Esc(ProjectNameSource(w))>>),
    Slot(Truthy(w.url),
         <<Static("*Deployment URL:* ["), Esc(w.url), Static("]("), Esc(w.url),
           Static(")")>>),
    Slot(Truthy(InspectorUrl(w)),
         <<Static("*Details:* [View on Vercel]("), Esc(InspectorUrl(w)), Static(")")>>),
    Slot(TRUE,
         <<Static("*Time:* "), Static("<bq>"), Esc(Str(w.date)), Static("<bq>")>>),
    Slot(w.target = Str(<<"production">>),
         <<Static("*Target:* "), Static("<bq>"), Static("PRODUCTION"), Static("<bq>")>>),
    Slot(w.alias.t = "array" /\ w.alias.items # << >>,
         <<Static("*Domains:* ")>> \o DomainList(w.alias.items)),
    Slot(Truthy(w.githubCommitRef),
         <<Static("*Branch:* "), Static("<bq>"), Esc(w.githubCommitRef), Static("<bq>")>>)>>

\* C18: for every deployment.succeeded event with a payload object, the
\* message is the newline-joined ordered list: title, project line, deployment
\* link line when a URL is present, details line when an inspector URL is
\* present, time line, PRODUCTION target line exactly when the target is
\* production, domains line with every alias escaped and in inline code
\* exactly when the alias list is non-empty, branch line exactly when a commit
\* ref is present.
C18_SucceededLayout ==
  (/\ Formatted
   /\ pureIn.arg.type = TypeTag("deployment.succeeded")
   /\ pureIn.arg.payload)
  => pureOut = Returned(Join(Chosen(SucceededLayout(pureIn.arg))))

\* A production deployment with a URL, two aliases and a branch was formatted
C18_Witness ==
  /\ Formatted
  /\ pureIn.arg.type = TypeTag("deployment.succeeded")
  /\ pureIn.arg.target = Str(<<"production">>)
  /\ Truthy(pureIn.arg.url)
  /\ pureIn.arg.alias = Arr(<<<<"a", ".", "b">>, <<"c">>>>)
  /\ Truthy(pureIn.arg.githubCommitRef)
  /\ ~pureOut.threw
  /\ Len(pureOut.value) > 20

-----------------------------------------------------------------------------
(* C17 *)

\* The responses the handlers send: fixed texts, and the Allow header of 405
FixedResponses ==
  {MethodNotAllowed, ConfigError, SignatureMissing, BodyError, LengthMismatch,
   InvalidSignature, InvalidJson, NoChatId, Sent, SendFailed, InternalError}

\* Some line of the log interpolates this value
Logged(value) == \E i \in DOMAIN log : value \in log[i].data

\* C17: the signing secret is never exposed. Whatever the request and the
\* outcome, no log line interpolates the configured secret, and every response
\* is one of the fixed texts, with no header but Allow: POST.
C17_SecretNeverExposed ==
  /\ ~Logged("secret")
  /\ \A i \in DOMAIN responses : responses[i] \in FixedResponses

\* With the secret configured, the headers and the digest computed with the
\* secret were logged, and the request was answered
C17_Witness ==
  /\ rev = "BareHash"
  /\ envSecret = "k1"
  /\ Logged("headers")
  /\ Logged("expectedSignature")
  /\ responses = <<InvalidSignature>>

-----------------------------------------------------------------------------
(* C19 *)

\* C19: a missing bot credential is reported as 500. In the handler of lines
\* 135-243, for every POST with a correct signature, a body that is valid JSON
\* and a configured chat id, when the bot credential is absent the dispatcher
\* makes no remote call and returns false, and the handler answers 500.
C19_NoTokenIs500 ==
  (/\ rev = "BareHash"
   /\ SignaturePassed
   /\ JsonParse(rawBody) # "malformed"
   /\ ~Falsy(envChatId)
   /\ Falsy(envBotToken))
  => /\ fetchCalls = 0
     /\ sendResult = "false"
     /\ responses = <<SendFailed>>

\* The same for the bodies the formatter returns a message for
C19_WhenFormatted ==
  (/\ rev = "BareHash"
   /\ SignaturePassed
   /\ JsonParse(rawBody) = "event"
   /\ ~Falsy(envChatId)
   /\ Falsy(envBotToken))
  => /\ fetchCalls = 0
     /\ sendResult = "false"
     /\ responses = <<SendFailed>>

-----------------------------------------------------------------------------
(* C20 *)

\* The bytes received, chunk after chunk in the order of arrival
RECURSIVE InArrivalOrder(_)
InArrivalOrder(cs) ==
  IF cs = << >> THEN << >>
  ELSE InArrivalOrder(SubSeq(cs, 1, Len(cs) - 1)) \o cs[Len(cs)]

\* The stream failed: the body step was taken and led to no signature step
ReadFailed == Did("bodyRead") /\ ~Did("signature")

\* C20: the body is fully buffered before it is used. In the verifying
\* handlers, while 'data' events arrive nothing is computed, parsed, dispatched
\* or answered; at 'end' the body is the concatenation of the chunks in arrival
\* order and the signature is accepted exactly when the header is the digest
\* of those bytes; an 'error' before 'end' is answered 500 with no signature
\* check.
C20_BodyFullyBuffered ==
  rev \in Verifying
  => /\ pc = "reading"
        => /\ ~Did("bodyRead") /\ ~Did("signature") /\ ~Did("parse") /\ ~Did("dispatch")
           /\ tseCalls = << >>
           /\ rawBody = << >>
           /\ responses = << >>
     /\ Did("signature")
        => /\ rawBody = InArrivalOrder(chunks)
           /\ Did("parse")
              <=> headerSig = ExpectedSignature(rev, InArrivalOrder(chunks), envSecret)
     /\ ReadFailed
        => /\ pc = "done"
           /\ responses = <<BodyError>>
           /\ tseCalls = << >>
           /\ ~Did("parse") /\ ~Did("dispatch")

\* A body that came in two chunks was verified against the digest of the
\* chunks in their order of arrival
C20_Witness ==
  /\ rev = "BareHash"
  /\ chunks = <<<<"O">>, <<"C">>>>
  /\ rawBody = <<"O", "C">>
  /\ SignaturePassed
  /\ Did("parse")

-----------------------------------------------------------------------------
(* C22, C24 *)

\* C22: escapeMarkdown composed with itself is idempotent only on texts with
\* no escapable character. For every text t, escapeMarkdown(escapeMarkdown(t))
\* equals escapeMarkdown(t) exactly when t has no reserved character, and for
\* such a t escapeMarkdown(t) is t.
C22_IdempotentOnlyWithoutReserved ==
  Escaped("string")
  => /\ ~pureOut.threw
     /\ (escapeMarkdown(Str(pureOut.value)) = pureOut) <=> (ReservedIn(pureIn.arg.s) = 0)
     /\ ReservedIn(pureIn.arg.s) = 0 => pureOut.value = pureIn.arg.s

\* A text with a reserved character was escaped, and escaping the result again
\* adds a second backslash
C22_Witness ==
  /\ Escaped("string")
  /\ pureIn.arg.s = <<"a", "*">>
  /\ pureOut.value = <<"a", Backslash, "*">>
  /\ escapeMarkdown(Str(pureOut.value)).value = <<"a", Backslash, Backslash, "*">>

\* C24: in the formatter's output each dynamic field is escaped exactly once.
\* For every event type and payload, no text that went through escapeMarkdown
\* goes through it a second time, so a reserved character of a field has
\* exactly one backslash before it in the message.
C24_EscapedExactlyOnce ==
  (Formatted /\ ~pureOut.threw)
  => \A i \in DOMAIN pureOut.value :
       pureOut.value[i].dyn
       => pureOut.value[i].text = Replace(pureOut.value[i].src)

\* The same for every event but attack.detected
C24_OutsideAttack ==
  (Formatted /\ ~pureOut.threw /\ pureIn.arg.type # TypeTag("attack.detected"))
  => \A i \in DOMAIN pureOut.value :
       pureOut.value[i].dyn
       => pureOut.value[i].text = Replace(pureOut.value[i].src)

-----------------------------------------------------------------------------
(* C23 *)

\* C23: every request eventually gets a response. In the handler of lines
\* 135-243, provided the body stream emits 'end' or 'error' and the remote
\* call, when made, settles, the handler eventually sends its response.
C23_EveryRequestAnswered ==
  (rev = "BareHash") => <>(responses # << >>)

\* Under the same provisos the handler always comes to an end, with a response
\* or with an exception
C23_HandlerEnds ==
  (rev = "BareHash") => <>(responses # << >> \/ pc = "threw")

\* Before the signature check the handler waits on the body stream only
C23_WaitsOnlyOnStream ==
  (rev = "BareHash" /\ ~Ended /\ ~Did("signature")) => pc \in {"start", "reading"}

-----------------------------------------------------------------------------
(* C21 *)

\* What a request with these inputs is answered, and the remote calls it
\* triggers, when it is the only one: a function of its own method, header,
\* chunks, stream outcome and remote outcome
Alone(r) ==
  LET ev == EntryVerdict(r.method, envSecret, r.headerSig)
      body == InArrivalOrder(r.delivered)
      bv == BodyVerdict(rev, r.headerSig, ExpectedSignature(rev, body, envSecret),
                        JsonParse(body), envChatId, envBotToken)
  IN CASE ev # "read" -> [responses |-> EntryResponses(ev), calls |-> 0]
       [] r.failed -> [responses |-> <<BodyError>>, calls |-> 0]
       [] bv # "fetch" -> [responses |-> BodyResponses(bv), calls |-> 0]
       [] r.fetched = "none" -> [responses |-> <<SendFailed>>, calls |-> 1]
       [] OTHER -> [responses |-> <<Outcome(SendOutcome(r.fetched = "ok", r.remoteBody))>>,
                    calls |-> 1]

Over(r) == r.pc \in {"done", "threw"}

\* C21: requests are handled independently. With two requests in flight in
\* the handler of lines 135-243 and their chunks, ends and remote completions
\* interleaved in any order, each request is answered, and triggers the remote
\* call, exactly as it would alone; what a request's getRawBody has buffered
\* and what its digest is computed over are its own chunks and no others.
C21_RequestsIndependent ==
  pc = "concurrent"
  => \A i \in Reqs :
       /\ inflight[i].pc = "reading" => buffers[ChunksOf(i)] = inflight[i].delivered
       /\ inflight[i].pc \notin {"start", "reading"} /\ ~inflight[i].failed
          => inflight[i].rawBody = InArrivalOrder(inflight[i].delivered)
       /\ Over(inflight[i])
          => /\ inflight[i].responses = Alone(inflight[i]).responses
             /\ inflight[i].fetchCalls = Alone(inflight[i]).calls

\* The remote call of request 1 is in flight while chunks of request 2, other
\* than those of request 1, are being buffered
C21_Witness ==
  /\ pc = "concurrent"
  /\ inflight[1].pc = "fetching"
  /\ inflight[2].pc = "reading"
  /\ inflight[2].delivered # << >>
  /\ inflight[2].delivered # inflight[1].delivered

====
